---------------------------- MODULE Spec2Model ----------------------------
(***************************************************************************)
(* The analytical engine of the social-media dashboard                     *)
(* (services/dataProcessor.ts) and the briefing, the report export and the *)
(* live feed of the App component, as a state machine.                     *)
(*                                                                         *)
(* JavaScript values are records [k, n, d, s]: k is the kind, n/d an exact *)
(* rational for a finite number (floating-point rounding is abstracted to  *)
(* exact arithmetic), s the text of an opaque string.  Instants are whole  *)
(* hours counted from a Sunday 00:00; the local time zone is taken to be   *)
(* UTC.  Strings that the code builds, splits, pads or matches are         *)
(* sequences of tokens (one token per character, or one per atomic word).  *)
(***************************************************************************)
EXTENDS Integers, Sequences, FiniteSets, TLC

VARIABLES
    rawData,    \* the rows handed to processCSVData
    data,       \* the SocialData[] snapshot the analysis functions are given
    op,         \* the operation that acted last
    raised,     \* TRUE when that operation threw
    out,        \* the value that operation returned
    nts,        \* the nts argument generateRichSummary was last given
    callsLeft,  \* the calls of the analysis functions still to be made on data
    reportRawText,      \* the text generateTacticalReport resolves to
    reportPending,      \* TRUE while startBriefing awaits generateTacticalReport
    isReporting,        \* App state
    showBriefingRoom,   \* App state
    briefingData,       \* App state: the sections mapping, empty for null
    exportLibraries,    \* which of window.html2canvas and window.jspdf are loaded
    exporting,          \* TRUE while finalizeReport is inside its try block
    isLive,             \* App state
    liveTopic,          \* App state
    isPulsing,          \* App state
    committed,          \* the state values of the last committed render: the
                        \* closures of its callbacks and its buttons hold them
    renderPending,      \* TRUE while a state update awaits its render
    inFlight,           \* the initiateNeuralPulse runs awaiting fetchLiveContext
    liveMetrics,        \* App state
    linkIntegrity,      \* App state
    context,            \* what fetchLiveContext last resolved to
    started,            \* what made the last silent pulse start
    pulsesLeft          \* the pulses still to be started

vars == <<rawData, data, op, raised, out, nts, callsLeft,
          reportRawText, reportPending, isReporting, showBriefingRoom, briefingData,
          exportLibraries, exporting,
          isLive, liveTopic, isPulsing, committed, renderPending, inFlight,
          liveMetrics, linkIntegrity, context, started, pulsesLeft>>

engineVars == <<rawData, data, op, raised, out, nts, callsLeft>>

briefingVars == <<reportRawText, reportPending, isReporting, showBriefingRoom, briefingData>>

exportVars == <<exportLibraries, exporting>>

liveVars == <<isLive, liveTopic, isPulsing, committed, renderPending, inFlight,
              liveMetrics, linkIntegrity, context, started, pulsesLeft>>

(***************************************************************************)
(* Bounds of the model.                                                    *)
(***************************************************************************)
MaxRows == 2

MaxRecords == 3

MaxSegments == 4
\* The calls of the analysis functions made one after another on one array
MaxCalls == 2
\* The neural pulses started in one behaviour
MaxPulses == 2
\* The rows of an uploaded file
MaxUpload == 1
\* The length of INITIAL_MOCK_DATA (50 in the code)
MockLength == 2

(***************************************************************************)
(* JavaScript values.                                                      *)
(***************************************************************************)
Undefined == [k |-> "undefined", n |-> 0, d |-> 1, s |-> ""]

NaN == [k |-> "NaN", n |-> 0, d |-> 1, s |-> ""]

Infinity(sign) == [k |-> "Infinity", n |-> sign, d |-> 1, s |-> ""]

Abs(x) == IF x < 0 THEN -x ELSE x

RECURSIVE GCD(_, _)
GCD(a, b) == IF b = 0 THEN a ELSE GCD(b, a % b)

\* The finite number n/d, in lowest terms with a positive denominator.
Rat(n, d) ==
    LET g == GCD(Abs(n), Abs(d))
        sg == IF d < 0 THEN -1 ELSE 1
    IN  [k |-> "number", n |-> (sg * n) \div g, d |-> Abs(d) \div g, s |-> ""]

Num(n) == [k |-> "number", n |-> n, d |-> 1, s |-> ""]

\* An opaque string: "" is the empty string, any other text is a
\* non-numeric, non-date string.
Str(s) == [k |-> "string", n |-> 0, d |-> 1, s |-> s]

\* The string that is the decimal numeral of the integer n ("0", "25", "-5").
NumStr(n) == [k |-> "numeral", n |-> n, d |-> 1, s |-> ""]

\* The ISO-8601 string (as toISOString writes it) of the instant t.
IsoStr(t) == [k |-> "iso", n |-> t, d |-> 1, s |-> ""]

IsString(v) == v.k \in {"string", "numeral", "iso"}

IsFinite(v) == v.k = "number"

\* ToBoolean, as `||` and `?:` apply it.
Truthy(v) ==
    CASE v.k = "undefined" -> FALSE
      [] v.k = "NaN"       -> FALSE
      [] v.k = "number"    -> v.n # 0
      [] v.k = "string"    -> v.s # ""
      [] OTHER             -> TRUE

\* a ?? b: b only for a missing value
OrMissing(a, b) == IF a.k # "undefined" THEN a ELSE b

\* a || b
Or(a, b) == IF Truthy(a) THEN a ELSE b

\* Number(v)
Number(v) ==
    CASE v.k = "undefined" -> NaN
      [] v.k = "numeral"   -> Num(v.n)
      [] v.k = "string"    -> IF v.s = "" THEN Num(0) ELSE NaN
      [] v.k = "iso"       -> NaN
      [] OTHER             -> v

\* new Date(v).getTime(): the instant a value denotes, NaN for an Invalid Date.
GetTime(v) ==
    CASE v.k = "iso"    -> Num(v.n)
      [] v.k = "number" -> v
      [] OTHER          -> NaN

\* new Date(v).getHours()
GetHours(v) == IF IsFinite(GetTime(v)) THEN Num(GetTime(v).n % 24) ELSE NaN

\* new Date(v).getDay()
GetDay(v) == IF IsFinite(GetTime(v)) THEN Num((GetTime(v).n \div 24) % 7) ELSE NaN

(***************************************************************************)
(* JavaScript arithmetic on numbers.                                       *)
(***************************************************************************)
Sign(x) == IF x < 0 THEN -1 ELSE IF x > 0 THEN 1 ELSE 0

JNeg(a) ==
    CASE a.k = "number"   -> [a EXCEPT !.n = -a.n]
      [] a.k = "Infinity" -> Infinity(-a.n)
      [] OTHER            -> NaN

JAdd(a, b) ==
    CASE a.k = "number" /\ b.k = "number"     -> Rat(a.n * b.d + b.n * a.d, a.d * b.d)
      [] a.k = "Infinity" /\ b.k = "number"   -> a
      [] a.k = "number" /\ b.k = "Infinity"   -> b
      [] a.k = "Infinity" /\ b.k = "Infinity" -> IF a.n = b.n THEN a ELSE NaN
      [] OTHER                                -> NaN

JSub(a, b) == JAdd(a, JNeg(b))

JMul(a, b) ==
    CASE a.k = "number" /\ b.k = "number" -> Rat(a.n * b.n, a.d * b.d)
      [] a.k \in {"number", "Infinity"} /\ b.k \in {"number", "Infinity"} ->
            IF Sign(a.n) * Sign(b.n) = 0 THEN NaN ELSE Infinity(Sign(a.n) * Sign(b.n))
      [] OTHER -> NaN

JDiv(a, b) ==
    CASE a.k = "number" /\ b.k = "number" ->
            IF b.n # 0 THEN Rat(a.n * b.d, a.d * b.n)
            ELSE IF a.n = 0 THEN NaN ELSE Infinity(Sign(a.n))
      [] a.k = "Infinity" /\ b.k = "number" ->
            Infinity(a.n * (IF b.n < 0 THEN -1 ELSE 1))
      [] a.k = "number" /\ b.k = "Infinity" -> Num(0)
      [] OTHER -> NaN

\* a < b, false whenever an operand is NaN
JLess(a, b) ==
    CASE a.k = "number" /\ b.k = "number"     -> a.n * b.d < b.n * a.d
      [] a.k = "Infinity" /\ b.k = "number"   -> a.n < 0
      [] a.k = "number" /\ b.k = "Infinity"   -> b.n > 0
      [] a.k = "Infinity" /\ b.k = "Infinity" -> a.n < b.n
      [] OTHER                                -> FALSE

\* a >= b, false whenever an operand is NaN
JGeq(a, b) == a.k # "NaN" /\ b.k # "NaN" /\ ~JLess(a, b)

\* Math.round: the nearest integer, halves towards +Infinity.
MathRound(a) ==
    IF a.k = "number" THEN Num((2 * a.n + a.d) \div (2 * a.d)) ELSE a

\* Math.max(a, b)
MathMax(a, b) ==
    IF a.k = "NaN" \/ b.k = "NaN" THEN NaN ELSE IF JLess(a, b) THEN b ELSE a

(***************************************************************************)
(* processCSVData                                                          *)
(***************************************************************************)
RowKeys ==
    {"Date", "date", "Engagement", "engagement", "Impressions", "impressions",
     "Shares", "shares", "Likes", "likes", "Comments", "comments",
     "Sector", "sector", "Platform", "platform", "Hour"}

\* row[key]: undefined for a key the row lacks
Get(row, key) == IF key \in DOMAIN row THEN row[key] ELSE Undefined

\* One row of processCSVData's map; now is the value of new Date().toISOString().
processRow(row, now) ==
    [Date        |-> Or(Or(Get(row, "Date"), Get(row, "date")), now),
     Engagement  |-> Number(Or(Or(Get(row, "Engagement"), Get(row, "engagement")), Num(0))),
     Impressions |-> Number(Or(Or(Get(row, "Impressions"), Get(row, "impressions")), Num(0))),
     Shares      |-> Number(Or(Or(Get(row, "Shares"), Get(row, "shares")), Num(0))),
     Likes       |-> Number(Or(Or(Get(row, "Likes"), Get(row, "likes")), Num(0))),
     Comments    |-> Number(Or(Or(Get(row, "Comments"), Get(row, "comments")), Num(0))),
     Sector      |-> Or(Or(Get(row, "Sector"), Get(row, "sector")), Str("General")),
     Platform    |-> Or(Or(Get(row, "Platform"), Get(row, "platform")), Str("Unknown")),
     Hour        |-> IF Truthy(Get(row, "Hour"))
                     THEN Number(Get(row, "Hour"))
                     ELSE Or(GetHours(Get(row, "Date")), Num(0))]

\* processCSVData leaving out the rows without any cell
processCSVDataOfFilledRows(rows, now) ==
    LET IsFilled(row) == DOMAIN row # {}
        filled == SelectSeq(rows, IsFilled)
    IN  [i \in 1..Len(filled) |-> processRow(filled[i], now)]

\* rawData.map(row => ...): one record per row, in the order of the rows
processCSVData(rows, now) == [i \in 1..Len(rows) |-> processRow(rows[i], now)]

(***************************************************************************)
(* Strings as token sequences.                                             *)
(***************************************************************************)
Digit(i) == <<"0", "1", "2", "3", "4", "5", "6", "7", "8", "9">>[i + 1]

RECURSIVE Digits(_)
Digits(n) == IF n < 10 THEN <<Digit(n)>> ELSE Append(Digits(n \div 10), Digit(n % 10))

\* String(v) of a template literal `${v}`, for the values that reach one:
\* integers, NaN, Infinity and undefined.
TemplateString(v) ==
    CASE v.k = "number" /\ v.d = 1 -> IF v.n < 0 THEN <<"-">> \o Digits(-v.n) ELSE Digits(v.n)
      [] v.k = "NaN"               -> <<"NaN">>
      [] v.k = "Infinity"          -> IF v.n < 0 THEN <<"-", "Infinity">> ELSE <<"Infinity">>
      [] v.k = "undefined"         -> <<"undefined">>

\* str.padStart(len, fill) for a one-character fill
RECURSIVE PadStart(_, _, _)
PadStart(str, len, fill) ==
    IF Len(str) >= len THEN str ELSE PadStart(<<fill>> \o str, len, fill)

\* str.split(sep) for a one-character separator
RECURSIVE Split(_, _)
Split(str, sep) ==
    IF \A i \in 1..Len(str) : str[i] # sep THEN <<str>>
    ELSE LET i == CHOOSE j \in 1..Len(str) :
                      str[j] = sep /\ \A h \in 1..(j - 1) : str[h] # sep
         IN  <<SubSeq(str, 1, i - 1)>> \o Split(SubSeq(str, i + 1, Len(str)), sep)

(***************************************************************************)
(* Array.prototype.sort                                                    *)
(***************************************************************************)
\* The sign SortCompare takes from a comparator's result: NaN counts as +0.
CmpSign(v) ==
    CASE v.k = "NaN" -> 0
      [] OTHER       -> Sign(v.n)

\* A comparator, given as the results cmp[i][j] it returns for the elements i
\* and j of seq, is consistent when its signs order the elements as a strict
\* weak order (ECMAScript, Array.prototype.sort).
Consistent(seq, cmp) ==
    LET I == 1..Len(seq)
        c(i, j) == CmpSign(cmp[i][j])
    IN  /\ \A i \in I : c(i, i) = 0
        /\ \A i, j \in I : c(i, j) = -c(j, i)
        /\ \A i, j, h \in I :
              /\ (c(i, j) = 0 /\ c(j, h) = 0) => c(i, h) = 0
              /\ (c(i, j) < 0 /\ c(j, h) < 0) => c(i, h) < 0
              /\ (c(i, j) = 0 /\ c(j, h) < 0) => c(i, h) < 0
              /\ (c(i, j) < 0 /\ c(j, h) = 0) => c(i, h) < 0

Arrangements(n) == {p \in [1..n -> 1..n] : \A i, j \in 1..n : p[i] = p[j] => i = j}

\* What seq.sort(comparator) may leave in the array, cmp[i][j] being the
\* comparator's result for the elements i and j of seq: with a consistent
\* comparator the one stable ascending arrangement, otherwise an
\* implementation-defined permutation of the elements.
SortOutcomes(seq, cmp) ==
    LET n == Len(seq)
        c(i, j) == CmpSign(cmp[i][j])
        Stable(p) == \A i, j \in 1..n :
                        i < j => \/ c(p[i], p[j]) < 0
                                 \/ (c(p[i], p[j]) = 0 /\ p[i] < p[j])
    IN  IF Consistent(seq, cmp)
        THEN {[i \in 1..n |-> seq[p[i]]] : p \in {q \in Arrangements(n) : Stable(q)}}
        ELSE {[i \in 1..n |-> seq[p[i]]] : p \in Arrangements(n)}

(***************************************************************************)
(* calculateNTS                                                            *)
(***************************************************************************)
weekDays == <<"Sunday", "Monday", "Tuesday", "Wednesday", "Thursday", "Friday", "Saturday">>

\* weekDays[d.getDay()] inside a template literal: "undefined" for an Invalid Date
dayOf(item) ==
    IF IsFinite(GetDay(item.Date)) THEN <<weekDays[GetDay(item.Date).n + 1]>>
    ELSE TemplateString(Undefined)

\* `${day}|${hr}`
keyOf(item) == dayOf(item) \o <<"|">> \o TemplateString(item.Hour)

\* vals.reduce((a, b) => a + b, 0)
RECURSIVE Sum(_)
Sum(vals) ==
    IF Len(vals) = 0 THEN Num(0)
    ELSE JAdd(Sum(SubSeq(vals, 1, Len(vals) - 1)), vals[Len(vals)])

\* The entries of intersectionMap after the forEach, in insertion order (the
\* order Object.entries lists them: no key is an array index).
RECURSIVE intersectionMap(_)
intersectionMap(d) ==
    IF Len(d) = 0 THEN <<>>
    ELSE LET m    == intersectionMap(SubSeq(d, 1, Len(d) - 1))
             item == d[Len(d)]
             key  == keyOf(item)
         IN  IF \E i \in 1..Len(m) : m[i].key = key
             THEN [i \in 1..Len(m) |->
                      IF m[i].key = key
                      THEN [m[i] EXCEPT !.vals = Append(@, item.Engagement)]
                      ELSE m[i]]
             ELSE Append(m, [key |-> key, vals |-> <<item.Engagement>>])

globalEngagements(d) == [i \in 1..Len(d) |-> d[i].Engagement]

baselineAverage(d) == JDiv(Sum(globalEngagements(d)), Num(Len(globalEngagements(d))))

\* Object.entries(intersectionMap).map(...), before the sort
groupAverages(d) ==
    LET m == intersectionMap(d)
    IN  [i \in 1..Len(m) |->
            [key |-> m[i].key, avg |-> JDiv(Sum(m[i].vals), Num(Len(m[i].vals)))]]

\* (a, b) => a.avg - b.avg, for every two elements of entries
byAvgAscending(entries) ==
    [i \in DOMAIN entries |-> [j \in DOMAIN entries |-> JSub(entries[i].avg, entries[j].avg)]]

\* (a, b) => b.avg - a.avg, for every two elements of entries
byAvgDescending(entries) ==
    [i \in DOMAIN entries |-> [j \in DOMAIN entries |-> JSub(entries[j].avg, entries[i].avg)]]

\* The hour label without the padding
hourLabelUnpadded(hourRaw) == hourRaw \o <<":", "0", "0">>

\* The `${hourRaw.padStart(2, '0')}:00` of the result
hourLabel(hourRaw) == PadStart(hourRaw, 2, "0") \o <<":", "0", "0">>

\* The lift with a baseline of 0 special-cased to 0
liftOrZero(best, d) ==
    IF baselineAverage(d) = Num(0) THEN Num(0)
    ELSE JMul(JDiv(JSub(best.avg, baselineAverage(d)), baselineAverage(d)), Num(100))

\* The lift taken over the best window's own average instead of the baseline
liftOverBest(best, d) ==
    JMul(JDiv(JSub(best.avg, baselineAverage(d)), best.avg), Num(100))

\* The lift of the best window over the baseline, before rounding
liftOf(best, d) ==
    JMul(JDiv(JSub(best.avg, baselineAverage(d)), baselineAverage(d)), Num(100))

\* The result for empty input with the score and lift of an empty average
ntsUnavailableNaN ==
    [bestDay |-> <<"N/A">>, bestHour |-> <<"N/A">>, engagementScore |-> NaN,
     liftPercentage |-> NaN, secondaryWindow |-> <<"N/A">>]

\* The result for empty input
ntsUnavailable ==
    [bestDay |-> <<"N/A">>, bestHour |-> <<"N/A">>, engagementScore |-> Num(0),
     liftPercentage |-> Num(0), secondaryWindow |-> <<"N/A">>]

\* The result once rankings holds the sorted averages.
ntsOf(d, rankings) ==
    LET best      == rankings[1]
        secondary == IF Len(rankings) >= 2 THEN rankings[2] ELSE rankings[1]
        bestParts == Split(best.key, "|")
        secParts  == Split(secondary.key, "|")
    IN  [bestDay         |-> bestParts[1],
         bestHour        |-> hourLabel(bestParts[2]),
         engagementScore |-> MathRound(best.avg),
         liftPercentage  |-> MathRound(liftOf(best, d)),
         secondaryWindow |-> secParts[1] \o <<" ", "@", " ">> \o hourLabel(secParts[2])]

\* Every value calculateNTS(d) may return.
calculateNTS(d) ==
    IF Len(d) = 0 THEN {ntsUnavailable}
    ELSE {ntsOf(d, r) : r \in SortOutcomes(groupAverages(d), byAvgDescending(groupAverages(d)))}

(***************************************************************************)
(* generateNeuralForecast                                                  *)
(***************************************************************************)
\* The number of projected points: the bound of the for loop.
ForecastDays == 10

\* The calendar date with day number n, as the text "YYYY-MM-DD".
DayStr(n) == [k |-> "day", n |-> n, d |-> 1, s |-> ""]

\* str.split('T')[0]: the date part of an ISO string; any other string is
\* kept whole (an opaque string stands for its own text before a 'T').
datePart(str) == IF str.k = "iso" THEN DayStr(str.n \div 24) ELSE str

\* (a, b) => new Date(a.Date).getTime() - new Date(b.Date).getTime()
\* for every two elements of d
byDateAscending(d) ==
    [i \in DOMAIN d |-> [j \in DOMAIN d |-> JSub(GetTime(d[i].Date), GetTime(d[j].Date))]]

\* What Math.random() may return in a run of the loop: one draw per projected
\* point.  The values cover both ends and the middle of [0, 1).
RandomValues == {Num(0), Rat(1, 2), Rat(9999, 10000)}

RandomDraws ==
    {[i \in 1..ForecastDays |-> r] : r \in RandomValues}
        \cup {[i \in 1..ForecastDays |-> IF i % 2 = 0 THEN Num(0) ELSE Rat(9999, 10000)]}

\* { date, actual } of a historical point; a point has no predicted key
historicalPoint(rec) ==
    [date |-> datePart(rec.Date), actual |-> rec.Engagement, predicted |-> Undefined]

\* points[points.length - 1].actual || 100
lastValOf(points) == Or(points[Len(points)].actual, Num(100))

\* (lastVal - (points[0].actual || 0)) / points.length
trendOf(points) ==
    JDiv(JSub(lastValOf(points), Or(points[1].actual, Num(0))), Num(Len(points)))

\* The projection with a perturbation that is not centred: Math.random() * 20
predictedOfUncentred(lastVal, trend, i, random) ==
    MathMax(Num(0), JAdd(JAdd(lastVal, JMul(trend, Num(i))), JMul(random, Num(20))))

\* Math.max(0, lastVal + (trend * i) + (Math.random() * 20 - 10))
predictedOf(lastVal, trend, i, random) ==
    MathMax(Num(0),
            JAdd(JAdd(lastVal, JMul(trend, Num(i))),
                 JSub(JMul(random, Num(20)), Num(10))))

\* { date, predicted } of the i-th projected point; lastDate is a valid instant
projectedPoint(lastDate, lastVal, trend, i, random) ==
    [date      |-> DayStr((lastDate.n + 24 * i) \div 24),
     actual    |-> Undefined,
     predicted |-> predictedOf(lastVal, trend, i, random)]

\* The run once sorted holds the sorted copy: it throws a TypeError in the map
\* when a Date is no string, and a RangeError in toISOString when the last
\* Date is an Invalid Date.
forecastOf(sorted, random) ==
    LET lastDate == GetTime(sorted[Len(sorted)].Date)
        points   == [i \in 1..Len(sorted) |-> historicalPoint(sorted[i])]
        lastVal  == lastValOf(points)
        trend    == trendOf(points)
    IN  IF (\E i \in 1..Len(sorted) : ~IsString(sorted[i].Date)) \/ ~IsFinite(lastDate)
        THEN [raised |-> TRUE, value |-> <<>>]
        ELSE [raised |-> FALSE,
              value  |-> points \o
                         [i \in 1..ForecastDays |->
                             projectedPoint(lastDate, lastVal, trend, i, random[i])]]

\* The array data with the sort applied to data itself: data.sort(...)
dataSortedInPlace(d, sorted) == sorted

\* The array data after [...data].sort(...): the sort arranges the copy made
\* by the spread, data keeps its own elements in their own order.
dataAfterSort(d, sorted) == d

\* Every outcome of generateNeuralForecast(d) under the draws random: whether
\* it raised, the value returned and the array d as the call leaves it.
generateNeuralForecast(d, random) ==
    IF Len(d) < 2 THEN {[raised |-> FALSE, value |-> <<>>, input |-> d]}
    ELSE {[raised |-> forecastOf(sorted, random).raised,
           value  |-> forecastOf(sorted, random).value,
           input  |-> dataAfterSort(d, sorted)] :
             sorted \in SortOutcomes(d, byDateAscending(d))}

(***************************************************************************)
(* generateRichSummary                                                     *)
(***************************************************************************)
\* The property key a value is stored under: a number and its numeral are
\* the same key.
propertyKey(v) == IF v.k = "number" /\ v.d = 1 THEN NumStr(v.n) ELSE v

IsArrayIndex(key) == key.k = "numeral" /\ key.n >= 0

\* acc[key] = (acc[key] || 0) + eng on the entries of acc, kept in the order
\* Object.entries lists them: array-index keys ascending, then the other keys
\* in insertion order.
addTo(acc, key, eng) ==
    IF \E i \in 1..Len(acc) : acc[i].key = key
    THEN [i \in 1..Len(acc) |->
             IF acc[i].key = key
             THEN [acc[i] EXCEPT !.total = JAdd(Or(@, Num(0)), eng)]
             ELSE acc[i]]
    ELSE LET entry == [key |-> key, total |-> JAdd(Num(0), eng)]
             before == IF IsArrayIndex(key)
                       THEN Cardinality({i \in 1..Len(acc) :
                                IsArrayIndex(acc[i].key) /\ acc[i].key.n < key.n})
                       ELSE Len(acc)
         IN  SubSeq(acc, 1, before) \o <<entry>> \o SubSeq(acc, before + 1, Len(acc))

RECURSIVE platformStats(_)
platformStats(d) ==
    IF Len(d) = 0 THEN <<>>
    ELSE addTo(platformStats(SubSeq(d, 1, Len(d) - 1)),
               propertyKey(d[Len(d)].Platform), d[Len(d)].Engagement)

RECURSIVE sectorStats(_)
sectorStats(d) ==
    IF Len(d) = 0 THEN <<>>
    ELSE addTo(sectorStats(SubSeq(d, 1, Len(d) - 1)),
               propertyKey(d[Len(d)].Sector), d[Len(d)].Engagement)

\* (a, b) => b[1] - a[1], for every two elements of entries
byTotalDescending(entries) ==
    [i \in DOMAIN entries |-> [j \in DOMAIN entries |-> JSub(entries[j].total, entries[i].total)]]

\* x.toFixed(1), as a count of tenths
toFixed1(x) == MathRound(JMul(x, Num(10)))

\* The sentinel for empty input
summaryUnavailable ==
    [text |-> "Fleet data unavailable.", packets |-> 0,
     totalEng |-> Undefined, avgEng |-> Undefined, totalImp |-> Undefined,
     topSector |-> Undefined, topSectorEng |-> Undefined,
     topPlatform |-> Undefined, topPlatformEng |-> Undefined,
     bestDay |-> <<>>, bestHour |-> <<>>, lift |-> Undefined, secondary |-> <<>>]

\* The digest: the template with the values it interpolates.
summaryOf(d, arg, topPlatform, topSector) ==
    [text |-> "Mission Status: Active", packets |-> Len(d),
     totalEng |-> Sum([i \in 1..Len(d) |-> d[i].Engagement]),
     avgEng |-> toFixed1(JDiv(Sum([i \in 1..Len(d) |-> d[i].Engagement]), Num(Len(d)))),
     totalImp |-> Sum([i \in 1..Len(d) |-> d[i].Impressions]),
     topSector |-> topSector.key, topSectorEng |-> topSector.total,
     topPlatform |-> topPlatform.key, topPlatformEng |-> topPlatform.total,
     bestDay |-> arg.bestDay, bestHour |-> arg.bestHour,
     lift |-> arg.liftPercentage, secondary |-> arg.secondaryWindow]

\* generateRichSummary with its guard on the nts argument instead of on data
generateRichSummaryGuardOnNts(d, arg) ==
    IF arg.bestDay = <<"N/A">> THEN {summaryUnavailable}
    ELSE IF Len(d) = 0
    THEN {summaryOf(d, arg, [key |-> Str("None"), total |-> Num(0)],
                    [key |-> Str("None"), total |-> Num(0)])}
    ELSE {summaryOf(d, arg, p[1], s[1]) :
            p \in SortOutcomes(platformStats(d), byTotalDescending(platformStats(d))),
            s \in SortOutcomes(sectorStats(d), byTotalDescending(sectorStats(d)))}

\* Every value generateRichSummary(d, nts) may return.
generateRichSummary(d, arg) ==
    IF Len(d) = 0 THEN {summaryUnavailable}
    ELSE {summaryOf(d, arg, p[1], s[1]) :
            p \in SortOutcomes(platformStats(d), byTotalDescending(platformStats(d))),
            s \in SortOutcomes(sectorStats(d), byTotalDescending(sectorStats(d)))}

(***************************************************************************)
(* startBriefing: splitting the report into sections                       *)
(***************************************************************************)
\* The characters of the class [A-Z_]
UpperChars ==
    {"A", "B", "C", "D", "E", "F", "G", "H", "I", "J", "K", "L", "M", "N", "O",
     "P", "Q", "R", "S", "T", "U", "V", "W", "X", "Y", "Z", "_"}

\* The characters String.prototype.trim strips (among those of the model)
WhiteSpace == {" ", "\n"}

\* Where \[([A-Z_]+)\] ends when matched at position i of str; 0 for no match.
markerEnd(str, i) ==
    IF i > Len(str) \/ str[i] # "[" THEN 0
    ELSE LET stop == CHOOSE j \in (i + 1)..(Len(str) + 1) :
                        /\ (j > Len(str) \/ str[j] \notin UpperChars)
                        /\ \A h \in (i + 1)..(j - 1) : str[h] \in UpperChars
         IN  IF stop > i + 1 /\ stop <= Len(str) /\ str[stop] = "]" THEN stop ELSE 0

\* The lookahead (?=\[[A-Z_]+\]|$) just after position e
lookahead(str, e) == markerEnd(str, e + 1) # 0 \/ e = Len(str)

\* The matches, as [from, to] pairs, that
\* str.match(/\[([A-Z_]+)\]([\s\S]*?)(?=\[[A-Z_]+\]|$)/g) finds from pos on;
\* the empty sequence stands for null.
RECURSIVE sectionMatches(_, _)
sectionMatches(str, pos) ==
    IF \A i \in pos..Len(str) : markerEnd(str, i) = 0 THEN <<>>
    ELSE LET from == CHOOSE i \in pos..Len(str) :
                        markerEnd(str, i) # 0 /\ \A h \in pos..(i - 1) : markerEnd(str, h) = 0
             to   == CHOOSE e \in markerEnd(str, from)..Len(str) :
                        lookahead(str, e)
                            /\ \A h \in markerEnd(str, from)..(e - 1) : ~lookahead(str, h)
         IN  <<[from |-> from, to |-> to]>> \o sectionMatches(str, to + 1)

\* str.trim()
RECURSIVE Trim(_)
Trim(str) ==
    IF Len(str) = 0 THEN str
    ELSE IF str[1] \in WhiteSpace THEN Trim(Tail(str))
    ELSE IF str[Len(str)] \in WhiteSpace THEN Trim(SubSeq(str, 1, Len(str) - 1))
    ELSE str

\* The title of a match in which the marker is not found
GENERAL == <<"G", "E", "N", "E", "R", "A", "L">>

\* match.match(/\[([A-Z_]+)\]/)?.[1] || 'GENERAL'
titleOf(match) ==
    IF \A j \in 1..Len(match) : markerEnd(match, j) = 0 THEN GENERAL
    ELSE LET i == CHOOSE j \in 1..Len(match) :
                      markerEnd(match, j) # 0 /\ \A h \in 1..(j - 1) : markerEnd(match, h) = 0
         IN  SubSeq(match, i + 1, markerEnd(match, i) - 1)

\* The content of a match without the trim
contentOfUntrimmed(match) ==
    LET i == CHOOSE j \in 1..Len(match) :
                 markerEnd(match, j) # 0 /\ \A h \in 1..(j - 1) : markerEnd(match, h) = 0
    IN  SubSeq(match, 1, i - 1) \o SubSeq(match, markerEnd(match, i) + 1, Len(match))

\* match.replace(/\[[A-Z_]+\]/, '').trim()
contentOf(match) ==
    LET i == CHOOSE j \in 1..Len(match) :
                 markerEnd(match, j) # 0 /\ \A h \in 1..(j - 1) : markerEnd(match, h) = 0
    IN  Trim(SubSeq(match, 1, i - 1) \o SubSeq(match, markerEnd(match, i) + 1, Len(match)))

\* sections after the forEach has gone through the first count matches
RECURSIVE sectionsAfter(_, _, _)
sectionsAfter(str, matches, count) ==
    IF count = 0 THEN <<>>
    ELSE LET prev  == sectionsAfter(str, matches, count - 1)
             match == SubSeq(str, matches[count].from, matches[count].to)
         IN  [t \in DOMAIN prev \cup {titleOf(match)} |->
                 IF t = titleOf(match) THEN contentOf(match) ELSE prev[t]]

\* The key the whole reply is stored under when nothing matches
EXECUTIVE_SUMMARY ==
    <<"E", "X", "E", "C", "U", "T", "I", "V", "E", "_", "S", "U", "M", "M", "A", "R", "Y">>

\* The sections mapping with a reply without markers stored under 'GENERAL'
sectionsOfGeneral(str) ==
    LET matches == sectionMatches(str, 1)
    IN  IF Len(matches) > 0 THEN sectionsAfter(str, matches, Len(matches))
        ELSE [t \in {GENERAL} |-> str]

\* The sections mapping startBriefing builds from the reply
sectionsOf(str) ==
    LET matches == sectionMatches(str, 1)
    IN  IF Len(matches) > 0 THEN sectionsAfter(str, matches, Len(matches))
        ELSE [t \in {EXECUTIVE_SUMMARY} |-> str]

(***************************************************************************)
(* The inputs of the model.                                                *)
(***************************************************************************)
BoundedSeq(S, n) == UNION {[1..m -> S] : m \in 0..n}

\* Instants: Monday 09:00, Tuesday 10:00, Wednesday 14:00, Saturday 23:00
Mon9 == IsoStr(1 * 24 + 9)

Tue10 == IsoStr(2 * 24 + 10)

Wed14 == IsoStr(3 * 24 + 14)

Sat23 == IsoStr(6 * 24 + 23)

\* new Date().toISOString() at the time of a call
NowValues == {Wed14}

\* Rows as Papa.parse (header: true) hands them over: every cell a string, a
\* column the file lacks a missing key.
RowSet ==
    {<<>>,
     [Date |-> Mon9, Engagement |-> NumStr(100), Impressions |-> NumStr(1000),
      Shares |-> NumStr(5), Likes |-> NumStr(40), Comments |-> NumStr(10),
      Sector |-> Str("Tech"), Platform |-> Str("X")],
     [date |-> Tue10, engagement |-> NumStr(50), impressions |-> NumStr(500),
      shares |-> NumStr(2), likes |-> NumStr(20), comments |-> NumStr(5),
      sector |-> Str("Gaming"), platform |-> Str("Instagram"), Hour |-> NumStr(10)],
     [Date |-> Mon9, Engagement |-> Str("abc")],
     [Date |-> Mon9, Engagement |-> NumStr(-5), Impressions |-> NumStr(-1)],
     [Date |-> Mon9, Engagement |-> Str(""), engagement |-> NumStr(7)],
     [Date |-> Mon9, Engagement |-> NumStr(0), engagement |-> NumStr(7)],
     [Date |-> Mon9, Hour |-> NumStr(25)],
     [Date |-> Mon9, Hour |-> Str("abc")],
     [Date |-> Mon9, Hour |-> NumStr(0)],
     [Date |-> Mon9, Hour |-> Str("")],
     [Date |-> Str("n/a"), Engagement |-> NumStr(100)],
     [Date |-> Str(""), date |-> Tue10],
     [Date |-> Str("n/a"), date |-> Tue10],
     [Engagement |-> NumStr(100)],
     [Date |-> Mon9, Shares |-> Str("abc"), Likes |-> NumStr(-3), Comments |-> Str("x")],
     [Date |-> Mon9, Sector |-> Str(""), sector |-> Str("Finance"), Platform |-> Str("")],
     [Date |-> Tue10, Engagement |-> NumStr(200), Hour |-> NumStr(-1)]}

\* A SocialData record
Record(date, hour, eng, imp, sector, platform) ==
    [Date |-> date, Engagement |-> eng, Impressions |-> imp, Shares |-> Num(0),
     Likes |-> Num(0), Comments |-> Num(0), Sector |-> sector, Platform |-> platform,
     Hour |-> hour]

\* Records for calculateNTS: the fields it reads are Date, Hour, Engagement.
NTSRecord(date, hour, eng) == Record(date, hour, eng, Num(0), Str("General"), Str("Unknown"))

NTSRecords ==
    {NTSRecord(Mon9, Num(9), Num(100)),
     NTSRecord(Mon9, Num(9), Num(200)),
     NTSRecord(Tue10, Num(10), Num(50)),
     NTSRecord(Tue10, Num(10), Num(200)),
     NTSRecord(Tue10, Num(10), Num(0)),
     NTSRecord(Mon9, Num(9), NaN),
     NTSRecord(Mon9, Num(9), Num(-100)),
     NTSRecord(Str("n/a"), Num(0), Num(70)),
     NTSRecord(Sat23, Num(23), Num(150)),
     NTSRecord(Sat23, Num(23), Num(200))}

\* Records for generateNeuralForecast: the fields it reads are Date, Engagement.
ForecastRecord(date, eng) ==
    Record(date, GetHours(date), eng, Num(0), Str("General"), Str("Unknown"))

ForecastRecords ==
    {ForecastRecord(Mon9, Num(100)),
     ForecastRecord(Mon9, Num(30)),
     ForecastRecord(Tue10, Num(50)),
     ForecastRecord(Tue10, Num(0)),
     ForecastRecord(Wed14, Num(200)),
     ForecastRecord(Sat23, NaN),
     Record(Str("n/a"), Num(0), Num(70), Num(0), Str("General"), Str("Unknown"))}

\* Records for generateRichSummary: the fields it reads are Engagement,
\* Impressions, Platform and Sector.
SummaryRecord(eng, imp, sector, platform) == Record(Mon9, Num(9), eng, imp, sector, platform)

SummaryRecords ==
    {SummaryRecord(Num(100), Num(1000), Str("Tech"), Str("X")),
     SummaryRecord(Num(100), Num(900), Str("Gaming"), Str("Instagram")),
     SummaryRecord(Num(50), Num(500), Str("Tech"), Str("Instagram")),
     SummaryRecord(Num(0), Num(0), Str("General"), Str("Unknown")),
     SummaryRecord(Num(150), Num(700), Str("Finance"), NumStr(7)),
     SummaryRecord(Num(100), Num(700), Str("Finance"), NumStr(7)),
     SummaryRecord(NaN, Num(10), Str("Tech"), Str("X"))}

\* Values for the nts argument of generateRichSummary besides calculateNTS(data)
NtsArguments ==
    {ntsUnavailable,
     [bestDay |-> <<"Monday">>, bestHour |-> <<"0", "9", ":", "0", "0">>,
      engagementScore |-> Num(150), liftPercentage |-> Num(29),
      secondaryWindow |-> <<"Tuesday", " ", "@", " ", "1", "0", ":", "0", "0">>]}

\* Replies of generateTacticalReport: the text of the model's reply, or one of
\* its two fixed failure messages; never the empty string.
KEY_INSIGHTS == <<"K", "E", "Y", "_", "I", "N", "S", "I", "G", "H", "T", "S">>

ExampleReply ==
    <<"[">> \o EXECUTIVE_SUMMARY \o <<"]", "F", "o", "o", "[">> \o KEY_INSIGHTS
        \o <<"]", "B", "a", "r">>

Segments ==
    {<<"[", "A", "]">>, <<"[", "B", "_", "]">>, <<"x">>, <<" ">>, <<"[">>, <<"]">>, <<"A">>}

RECURSIVE Concat(_)
Concat(segs) == IF Len(segs) = 0 THEN <<>> ELSE segs[1] \o Concat(Tail(segs))

Replies ==
    {Concat(segs) : segs \in BoundedSeq(Segments, MaxSegments) \ {<<>>}}
        \cup {ExampleReply,
              <<"Report generation failed.">>,
              <<"Failed to establish secure link for report generation.">>}

(***************************************************************************)
(* Operations.                                                             *)
(***************************************************************************)
\* processCSVData(rawData)
ProcessCSVData ==
    /\ op = "init"
    /\ \E now \in NowValues :
          /\ data' = processCSVData(rawData, now)
          /\ out' = processCSVData(rawData, now)
    /\ op' = "processCSVData"
    /\ raised' = FALSE
    /\ UNCHANGED <<rawData, nts, callsLeft, briefingVars, exportVars, liveVars>>

\* calculateNTS(data): the forEach only reads data
CalculateNTS ==
    /\ op # "init"
    /\ callsLeft > 0
    /\ callsLeft' = callsLeft - 1
    /\ \E result \in calculateNTS(data) : out' = result
    /\ op' = "calculateNTS"
    /\ raised' = FALSE
    /\ UNCHANGED <<rawData, data, nts, briefingVars, exportVars, liveVars>>

\* generateNeuralForecast(data)
GenerateNeuralForecast ==
    /\ op # "init"
    /\ callsLeft > 0
    /\ callsLeft' = callsLeft - 1
    /\ \E random \in RandomDraws :
          \E result \in generateNeuralForecast(data, random) :
              /\ out' = result.value
              /\ raised' = result.raised
              /\ data' = result.input
    /\ op' = "generateNeuralForecast"
    /\ UNCHANGED <<rawData, nts, briefingVars, exportVars, liveVars>>

\* generateRichSummary(data, nts): the reduce calls only read data
GenerateRichSummary ==
    /\ op # "init"
    /\ callsLeft > 0
    /\ callsLeft' = callsLeft - 1
    /\ \E arg \in calculateNTS(data) \cup NtsArguments :
          /\ nts' = arg
          /\ \E result \in generateRichSummary(data, arg) : out' = result
    /\ op' = "generateRichSummary"
    /\ raised' = FALSE
    /\ UNCHANGED <<rawData, data, briefingVars, exportVars, liveVars>>

\* startBriefing up to its await: the button is disabled while isReporting
StartBriefing ==
    /\ ~isReporting
    /\ isReporting' = TRUE
    /\ reportPending' = TRUE
    /\ UNCHANGED <<reportRawText, showBriefingRoom, briefingData, engineVars, exportVars, liveVars>>

\* startBriefing from the reply of generateTacticalReport to its finally block
ReportReturns ==
    /\ reportPending
    /\ briefingData' = sectionsOf(reportRawText)
    /\ showBriefingRoom' = TRUE
    /\ isReporting' = FALSE
    /\ reportPending' = FALSE
    /\ UNCHANGED <<reportRawText, engineVars, exportVars, liveVars>>

\* The close buttons of the briefing room
CloseBriefingRoom ==
    /\ showBriefingRoom
    /\ showBriefingRoom' = FALSE
    /\ UNCHANGED <<reportRawText, reportPending, isReporting, briefingData, engineVars, exportVars, liveVars>>

(***************************************************************************)
(* Specifications.                                                         *)
(***************************************************************************)
\* The live feed of the App after construction
InitLiveFeed ==
    /\ isLive = FALSE
    /\ liveTopic = "Global AI Trends"
    /\ isPulsing = FALSE
    /\ committed = [isPulsing |-> FALSE, isLive |-> FALSE, liveTopic |-> "Global AI Trends"]
    /\ renderPending = FALSE
    /\ inFlight = <<>>
    /\ liveMetrics = [score |-> Num(0), multiplier |-> Num(1), volatility |-> Num(0)]
    /\ linkIntegrity = 100
    /\ context = <<>>
    /\ started = "none"

InitBriefing ==
    /\ reportRawText = <<>>
    /\ reportPending = FALSE
    /\ isReporting = FALSE
    /\ showBriefingRoom = FALSE
    /\ briefingData = <<>>
    /\ exportLibraries = [html2canvas |-> TRUE, jspdf |-> TRUE]
    /\ exporting = FALSE
    /\ InitLiveFeed
    /\ pulsesLeft = 0

\* Raw rows through processCSVData and on to the three analysis functions
InitCSV ==
    /\ rawData \in BoundedSeq(RowSet, MaxRows)
    /\ data = <<>>
    /\ op = "init"
    /\ raised = FALSE
    /\ out = <<>>
    /\ nts = ntsUnavailable
    /\ callsLeft = 1
    /\ InitBriefing

NextCSV ==
    \/ ProcessCSVData
    \/ CalculateNTS
    \/ GenerateNeuralForecast
    \/ GenerateRichSummary

SpecCSV == InitCSV /\ [][NextCSV]_vars

InitSnapshot(records) ==
    /\ rawData = <<>>
    /\ data \in BoundedSeq(records, MaxRecords)
    /\ op = "snapshot"
    /\ raised = FALSE
    /\ out = <<>>
    /\ nts = ntsUnavailable
    /\ callsLeft = 1
    /\ InitBriefing

\* calculateNTS on a snapshot
InitNTS == InitSnapshot(NTSRecords)

SpecNTS == InitNTS /\ [][CalculateNTS]_vars

\* generateNeuralForecast on a snapshot
InitForecast == InitSnapshot(ForecastRecords)

SpecForecast == InitForecast /\ [][GenerateNeuralForecast]_vars

\* generateRichSummary on a snapshot
InitSummary == InitSnapshot(SummaryRecords)

SpecSummary == InitSummary /\ [][GenerateRichSummary]_vars

\* The analysis functions called one after another, in any order, on the one
\* array filteredData
FrameRecords ==
    {ForecastRecord(Wed14, Num(200)),
     ForecastRecord(Mon9, Num(100)),
     Record(Str("n/a"), Num(0), Num(70), Num(0), Str("General"), Str("Unknown"))}

InitFrame ==
    /\ rawData = <<>>
    /\ data \in BoundedSeq(FrameRecords, MaxRecords)
    /\ op = "snapshot"
    /\ raised = FALSE
    /\ out = <<>>
    /\ nts = ntsUnavailable
    /\ callsLeft = MaxCalls
    /\ InitBriefing

NextFrame ==
    \/ CalculateNTS
    \/ GenerateNeuralForecast
    \/ GenerateRichSummary

SpecFrame == InitFrame /\ [][NextFrame]_vars

\* The briefing of the App
InitBrief ==
    /\ rawData = <<>>
    /\ data = <<>>
    /\ op = "snapshot"
    /\ raised = FALSE
    /\ out = <<>>
    /\ nts = ntsUnavailable
    /\ callsLeft = 0
    /\ reportRawText \in Replies
    /\ reportPending = FALSE
    /\ isReporting = FALSE
    /\ showBriefingRoom = FALSE
    /\ briefingData = <<>>
    /\ exportLibraries = [html2canvas |-> TRUE, jspdf |-> TRUE]
    /\ exporting = FALSE
    /\ InitLiveFeed
    /\ pulsesLeft = 0

NextBrief ==
    \/ StartBriefing
    \/ ReportReturns
    \/ CloseBriefingRoom

SpecBrief == InitBrief /\ [][NextBrief]_vars

(***************************************************************************)
(* Properties of processCSVData and of the pipeline behind it (SpecCSV).   *)
(***************************************************************************)
NumericFields == {"Engagement", "Impressions", "Shares", "Likes", "Comments"}

LowerKey(field) ==
    CASE field = "Engagement"  -> "engagement"
      [] field = "Impressions" -> "impressions"
      [] field = "Shares"      -> "shares"
      [] field = "Likes"       -> "likes"
      [] field = "Comments"    -> "comments"
      [] field = "Date"        -> "date"
      [] field = "Sector"      -> "sector"
      [] field = "Platform"    -> "platform"

\* A number >= 0
IsNonNegativeNumber(v) == v.k = "number" /\ v.n >= 0

\* An integer in 0..23
IsHourOfDay(v) == v.k = "number" /\ v.d = 1 /\ v.n \in 0..23

\* A cell holding text that is no numeral
IsUnparseable(v) == v.k = "string" /\ v.s # ""

\* C1: for every raw row processCSVData returns without raising, and every
\* record it returns has Engagement, Impressions, Shares, Likes and Comments
\* each a number >= 0 and Hour an integer in 0..23.
C1_NormalizationTotal ==
    op = "processCSVData" =>
        /\ ~raised
        /\ \A i \in 1..Len(data) :
              /\ \A f \in NumericFields : IsNonNegativeNumber(data[i][f])
              /\ IsHourOfDay(data[i].Hour)

\* C2: for any sequence of raw rows, calculateNTS, generateNeuralForecast and
\* generateRichSummary applied to the output of processCSVData return a value
\* and never raise.
C2_AnalysisNeverRaises ==
    op \in {"calculateNTS", "generateNeuralForecast", "generateRichSummary"} => ~raised

\* C3: when the value supplied for a numeric field is text that does not parse
\* as a number (under the capitalized key, or under the lower-cased key of a
\* row without the capitalized one), the field of the record is exactly 0.
C3_UnparseableBecomesZero ==
    op = "processCSVData" =>
        \A i \in 1..Len(data) : \A f \in NumericFields :
            (\/ IsUnparseable(Get(rawData[i], f))
             \/ (f \notin DOMAIN rawData[i] /\ IsUnparseable(Get(rawData[i], LowerKey(f)))))
                => data[i][f] = Num(0)

(***************************************************************************)
(* Properties of generateNeuralForecast (SpecForecast).                    *)
(***************************************************************************)
HasValue(v) == v # Undefined

\* C4: generateNeuralForecast returns an empty sequence for 0 or 1 records;
\* for n >= 2 records it returns exactly n + 10 points, the first n with an
\* actual and no predicted value, the last 10 with a predicted and no actual
\* value.
C4_ForecastLength ==
    op = "generateNeuralForecast" =>
        /\ ~raised
        /\ Len(data) < 2 => out = <<>>
        /\ Len(data) >= 2 =>
              /\ Len(out) = Len(data) + 10
              /\ \A i \in 1..Len(out) :
                    IF i <= Len(data)
                    THEN HasValue(out[i].actual) /\ ~HasValue(out[i].predicted)
                    ELSE HasValue(out[i].predicted) /\ ~HasValue(out[i].actual)

\* base + trend * i
Projection(base, trend, i) == JAdd(base, JMul(trend, Num(i)))

OrElse(v, fallback) == IF v.k = "number" /\ v.n # 0 THEN v ELSE fallback

GroupEngagements(day, label) ==
    LET InGroup(rec) == dayOf(rec) = day /\ hourLabel(TemplateString(rec.Hour)) = label
        members == SelectSeq(data, InGroup)
    IN  [i \in 1..Len(members) |-> members[i].Engagement]

\* The arithmetic mean of a non-empty sequence of numbers
Mean(vals) == JDiv(Sum(vals), Num(Len(vals)))

GroupMean(day, label) == Mean(GroupEngagements(day, label))

GroupMeanOf(rec) == GroupMean(dayOf(rec), hourLabel(TemplateString(rec.Hour)))

GlobalMean == Mean([i \in 1..Len(data) |-> data[i].Engagement])

\* C6: for non-empty input the reported best window is a (weekday, hour)
\* group of the input whose mean engagement is >= the mean engagement of
\* every other group.
C6_BestWindowHasHighestMean ==
    (op = "calculateNTS" /\ Len(data) > 0) =>
        /\ Len(GroupEngagements(out.bestDay, out.bestHour)) > 0
        /\ \A i \in 1..Len(data) :
              JGeq(GroupMean(out.bestDay, out.bestHour), GroupMeanOf(data[i]))

\* The records of the example: two on Monday hour 9 with engagements 100 and
\* 200, one on Tuesday hour 10 with engagement 50
IsLiftExample ==
    /\ Len(data) = 3
    /\ \E i, j, h \in 1..3 :
          /\ {i, j, h} = 1..3
          /\ data[i] = NTSRecord(Mon9, Num(9), Num(100))
          /\ data[j] = NTSRecord(Mon9, Num(9), Num(200))
          /\ data[h] = NTSRecord(Tue10, Num(10), Num(50))

\* C7: for non-empty input whose global mean engagement b is not 0,
\* liftPercentage = round(((m - b) / b) * 100) with m the mean engagement of
\* the best window; the example gives Monday 09:00, score 150 and lift 29.
C7_LiftFormula ==
    (op = "calculateNTS" /\ Len(data) > 0 /\ GlobalMean # Num(0)) =>
        /\ out.liftPercentage =
              MathRound(JMul(JDiv(JSub(GroupMean(out.bestDay, out.bestHour), GlobalMean),
                                  GlobalMean),
                             Num(100)))
        /\ IsLiftExample =>
              /\ out.bestDay = <<"Monday">>
              /\ out.bestHour = <<"0", "9", ":", "0", "0">>
              /\ out.engagementScore = Num(150)
              /\ out.liftPercentage = Num(29)

\* calculateNTS has run on the records of the example.
C7_Witness == op = "calculateNTS" /\ IsLiftExample

\* C8: on empty input calculateNTS returns, without raising, bestDay, bestHour
\* and secondaryWindow all 'N/A' and engagementScore and liftPercentage both 0.
C8_EmptyInputUnavailable ==
    (op = "calculateNTS" /\ Len(data) = 0) =>
        /\ ~raised
        /\ out.bestDay = <<"N/A">>
        /\ out.bestHour = <<"N/A">>
        /\ out.secondaryWindow = <<"N/A">>
        /\ out.engagementScore = Num(0)
        /\ out.liftPercentage = Num(0)

\* calculateNTS has run on the empty input.
C8_Witness == op = "calculateNTS" /\ Len(data) = 0 /\ out.bestDay = <<"N/A">>

(***************************************************************************)
(* Properties of generateRichSummary (SpecSummary).                        *)
(***************************************************************************)
\* C9: on an empty record sequence generateRichSummary returns the fixed
\* string 'Fleet data unavailable.', with nothing of the nts argument in it,
\* for every value of that argument.
C9_EmptyInputSentinel ==
    (op = "generateRichSummary" /\ Len(data) = 0) =>
        /\ ~raised
        /\ out.text = "Fleet data unavailable."
        /\ out.bestDay = <<>>
        /\ out.bestHour = <<>>
        /\ out.secondary = <<>>
        /\ out.lift = Undefined

\* generateRichSummary has run on the empty input with an nts argument that
\* is not the result for empty input.
C9_Witness ==
    /\ op = "generateRichSummary"
    /\ Len(data) = 0
    /\ nts.bestDay = <<"Monday">>
    /\ out.text = "Fleet data unavailable."

(***************************************************************************)
(* Properties of the section splitting of startBriefing (SpecBrief).       *)
(***************************************************************************)
\* reply[i..j] is a bracketed upper-case marker
IsMarker(reply, i, j) ==
    /\ i + 1 < j
    /\ reply[i] = "["
    /\ reply[j] = "]"
    /\ \A h \in (i + 1)..(j - 1) : reply[h] \in UpperChars

\* The markers of reportRawText, each as the pair of its two brackets
Markers ==
    {m \in (1..Len(reportRawText)) \X (1..Len(reportRawText)) :
        IsMarker(reportRawText, m[1], m[2])}

MarkerName(m) == SubSeq(reportRawText, m[1] + 1, m[2] - 1)

\* The text from marker m up to the next marker or the end
TextAfter(m) ==
    LET later == {h[1] : h \in {g \in Markers : g[1] > m[2]}}
        stop  == IF later = {} THEN Len(reportRawText) + 1
                 ELSE CHOOSE i \in later : \A h \in later : i <= h
    IN  SubSeq(reportRawText, m[2] + 1, stop - 1)

\* trimmed is text without its leading and trailing white space
IsTrimOf(trimmed, text) ==
    \E a \in 1..(Len(text) + 1) : \E b \in 0..Len(text) :
        /\ trimmed = SubSeq(text, a, b)
        /\ \A h \in 1..(a - 1) : text[h] \in WhiteSpace
        /\ \A h \in (b + 1)..Len(text) : text[h] \in WhiteSpace
        /\ a > b \/ (text[a] \notin WhiteSpace /\ text[b] \notin WhiteSpace)

\* The reply has been split
IsSplit == briefingData # <<>> /\ Markers # {}

\* C10 as stated: the mapping has exactly one entry per marker of the reply,
\* keyed by the marker's name and holding the trimmed text from that marker
\* up to the next marker or the end.
C10_OneEntryPerMarker ==
    IsSplit =>
        /\ Cardinality(DOMAIN briefingData) = Cardinality(Markers)
        /\ \A m \in Markers :
              /\ MarkerName(m) \in DOMAIN briefingData
              /\ IsTrimOf(briefingData[MarkerName(m)], TextAfter(m))

\* C10: the mapping has exactly one entry per marker name of the reply; the
\* entry of a name holds the trimmed text from the last marker of that name
\* up to the next marker or the end (the marker's own text where no name
\* repeats); '[EXECUTIVE_SUMMARY]Foo[KEY_INSIGHTS]Bar' yields
\* {EXECUTIVE_SUMMARY: 'Foo', KEY_INSIGHTS: 'Bar'}.
C10_OneEntryPerMarkerName ==
    IsSplit =>
        /\ DOMAIN briefingData = {MarkerName(m) : m \in Markers}
        /\ \A m \in Markers :
              (\A g \in Markers : MarkerName(g) = MarkerName(m) => g[1] <= m[1]) =>
                  IsTrimOf(briefingData[MarkerName(m)], TextAfter(m))
        /\ reportRawText = ExampleReply =>
              /\ DOMAIN briefingData = {EXECUTIVE_SUMMARY, KEY_INSIGHTS}
              /\ briefingData[EXECUTIVE_SUMMARY] = <<"F", "o", "o">>
              /\ briefingData[KEY_INSIGHTS] = <<"B", "a", "r">>

\* A reply in which a marker name repeats and a section has white space to
\* trim has been split.
C10_Witness ==
    /\ IsSplit
    /\ \E m, g \in Markers : m # g /\ MarkerName(m) = MarkerName(g)
    /\ \E m \in Markers : TextAfter(m) # <<>> /\ TextAfter(m)[1] \in WhiteSpace

\* A reply without any marker has been split
IsUnmarkedSplit == briefingData # <<>> /\ Markers = {}

\* C11 as stated: a reply without any recognized marker yields a mapping with
\* exactly one entry, under the key 'GENERAL', whose value is the reply text.
C11_UnmarkedUnderGeneral ==
    IsUnmarkedSplit =>
        /\ DOMAIN briefingData = {GENERAL}
        /\ briefingData[GENERAL] = reportRawText

\* C11: a reply without any recognized marker yields a mapping with exactly
\* one entry, under the key 'EXECUTIVE_SUMMARY', whose value is the whole
\* reply text, untrimmed.
C11_UnmarkedUnderExecutiveSummary ==
    IsUnmarkedSplit =>
        /\ DOMAIN briefingData = {EXECUTIVE_SUMMARY}
        /\ briefingData[EXECUTIVE_SUMMARY] = reportRawText

\* A reply of text and brackets that form no marker has been split.
C11_Witness ==
    /\ IsUnmarkedSplit
    /\ reportRawText = <<"[", "x", "]", " ">>

(***************************************************************************)
(* Properties of the calls made on one array (SpecFrame).                  *)
(***************************************************************************)
\* C12: no call of calculateNTS, generateNeuralForecast or generateRichSummary
\* changes the record sequence it is given (same length, same elements, same
\* order, same field values), so the calls made one after another, in any
\* order, on the same array each see the identical input.
C12_InputUnchanged == [][data' = data]_vars

\* generateNeuralForecast has returned, as the last of the calls, on an array
\* whose records are not in ascending date order.
C12_Witness ==
    /\ op = "generateNeuralForecast" /\ ~raised
    /\ callsLeft = 0
    /\ Len(data) >= 2
    /\ data[1].Date = Wed14 /\ data[2].Date = Mon9

(***************************************************************************)
(* Further properties of processCSVData (SpecCSV).                         *)
(***************************************************************************)
\* The record a single row gives, with now the current instant
RecordOfRow(row, now) == processCSVData(<<row>>, now)[1]

\* C13: processCSVData returns exactly one record per input row, the record
\* at position k derived from the input row at position k; no row is dropped,
\* duplicated or reordered.
C13_OneRecordPerRow ==
    op = "processCSVData" =>
        /\ Len(data) = Len(rawData)
        /\ \E now \in NowValues :
              \A k \in 1..Len(rawData) : data[k] = RecordOfRow(rawData[k], now)

\* processCSVData has run on two rows that give different records, the
\* first of them a row without any cell.
C13_Witness ==
    /\ op = "processCSVData"
    /\ Len(rawData) = 2
    /\ rawData[1] = <<>>
    /\ data[1] # data[2]

\* C14: every record returned by processCSVData has a Date that parses to a
\* valid instant; a row whose date value is missing or does not parse gets
\* the current instant as its Date.
C14_DateParses ==
    op = "processCSVData" =>
        \A i \in 1..Len(data) :
            /\ data[i].Date.k = "iso"
            /\ (\A key \in {"Date", "date"} :
                    key \notin DOMAIN rawData[i] \/ rawData[i][key].k # "iso")
                  => data[i].Date \in NowValues

AllFields == NumericFields \cup {"Date", "Sector", "Platform"}

\* The default of a field, now being the current instant
DefaultOf(field, now) ==
    CASE field \in NumericFields -> Num(0)
      [] field = "Sector"        -> Str("General")
      [] field = "Platform"      -> Str("Unknown")
      [] field = "Date"          -> now

\* The field a value gives: numeric fields hold its numeric coercion
FieldOf(field, v) ==
    IF field \notin NumericFields THEN v
    ELSE CASE v.k = "number"  -> v
           [] v.k = "numeral" -> Num(v.n)
           [] v.k = "string" /\ v.s = "" -> Num(0)
           [] OTHER           -> NaN

\* The value chosen by the keys the row has
ByPresence(row, field, now) ==
    IF field \in DOMAIN row THEN row[field]
    ELSE IF LowerKey(field) \in DOMAIN row THEN row[LowerKey(field)]
    ELSE DefaultOf(field, now)

IsEmptyCell(row, key) == key \notin DOMAIN row \/ row[key] = Str("")

\* The value chosen by the keys under which the row has a non-empty value
ByContent(row, field, now) ==
    IF ~IsEmptyCell(row, field) THEN row[field]
    ELSE IF ~IsEmptyCell(row, LowerKey(field)) THEN row[LowerKey(field)]
    ELSE DefaultOf(field, now)

\* C15 as stated: each of the fields Date, Engagement, Impressions, Shares,
\* Likes, Comments, Sector and Platform takes the value under the capitalized
\* key whenever the row has that key, else the value under the lower-cased
\* key when the row has it, else the default.
C15_CapitalizedKeyWhenPresent ==
    op = "processCSVData" =>
        \E now \in NowValues :
            \A i \in 1..Len(data) : \A f \in AllFields :
                data[i][f] = FieldOf(f, ByPresence(rawData[i], f, now))

\* C15: each of the fields Date, Engagement, Impressions, Shares, Likes,
\* Comments, Sector and Platform takes the value under the capitalized key
\* when the row has a non-empty value there, else the value under the
\* lower-cased key when the row has a non-empty value there, else the default
\* (0 for numeric fields, 'General', 'Unknown', the current instant);
\* numeric fields hold the numeric coercion of that value.
C15_CapitalizedKeyWhenNonEmpty ==
    op = "processCSVData" =>
        \E now \in NowValues :
            \A i \in 1..Len(data) : \A f \in AllFields :
                data[i][f] = FieldOf(f, ByContent(rawData[i], f, now))

\* processCSVData has run on a row with an empty Engagement cell and 7 under
\* engagement.
C15_Witness ==
    /\ op = "processCSVData"
    /\ \E i \in 1..Len(rawData) :
          /\ {"Engagement", "engagement"} \subseteq DOMAIN rawData[i]
          /\ rawData[i].Engagement = Str("")
          /\ rawData[i].engagement = NumStr(7)
          /\ data[i].Engagement = Num(7)

\* The hour component of an instant
HourOfInstant(date) == Num(date.n % 24)

\* C16: the Hour of a record is the numeric coercion of the row's explicit
\* hour field when the row has one; otherwise it is the hour component of the
\* record's own parsed timestamp (the value that becomes its Date field), and
\* 0 when that timestamp does not parse.
C16_HourResolution ==
    op = "processCSVData" =>
        \A i \in 1..Len(data) :
            data[i].Hour =
                IF "Hour" \in DOMAIN rawData[i] /\ rawData[i].Hour # Str("")
                THEN FieldOf("Engagement", rawData[i].Hour)
                ELSE IF data[i].Date.k = "iso" THEN HourOfInstant(data[i].Date)
                ELSE Num(0)

(***************************************************************************)
(* Further properties of generateNeuralForecast (SpecForecast).            *)
(***************************************************************************)
\* The actual value of a point, 0 when the point has none
ActualOrZero(v) == IF v.k = "number" THEN v ELSE Num(0)

\* C17: the base value the 10 projected points are extrapolated from is the
\* engagement of the chronologically last record (0 when that point has no
\* actual value), and trend = (base - engagement of the chronologically first
\* record) / number of records: each projected point i is the base plus
\* trend * i, perturbed by at most 10 and clamped at 0.
C17_BaseIsLastEngagement ==
    (op = "generateNeuralForecast" /\ ~raised /\ Len(data) >= 2) =>
        LET n == Len(data)
            base == ActualOrZero(out[n].actual)
            trend == JDiv(JSub(base, ActualOrZero(out[1].actual)), Num(n))
        IN  \A i \in 1..10 :
                /\ JGeq(out[n + i].predicted,
                        MathMax(Num(0), JSub(Projection(base, trend, i), Num(10))))
                /\ JGeq(MathMax(Num(0), JAdd(Projection(base, trend, i), Num(10))),
                        out[n + i].predicted)

\* The instant of the k-th input record
InstantOf(k) == GetTime(data[k].Date)

\* C18: the historical points are the input records in ascending timestamp
\* order, one point per record carrying that record's engagement as actual,
\* records with equal timestamps keeping their relative input order.
C18_HistoricalPointsSorted ==
    (op = "generateNeuralForecast" /\ ~raised /\ Len(data) >= 2) =>
        \E p \in Arrangements(Len(data)) :
            /\ \A i \in 1..Len(data) :
                  /\ out[i].actual = data[p[i]].Engagement
                  /\ out[i].date = datePart(data[p[i]].Date)
            /\ \A i, j \in 1..Len(data) :
                  i < j => /\ ~JLess(InstantOf(p[j]), InstantOf(p[i]))
                           /\ InstantOf(p[i]) = InstantOf(p[j]) => p[i] < p[j]

\* date a is before date b, or the same day
DayLeq(a, b) == a.k = "day" /\ b.k = "day" /\ a.n <= b.n

\* C19: for n >= 2 records the i-th projected point is dated exactly i
\* calendar days after the last historical point, so the dates of the whole
\* output are in ascending order and the 10 projected dates are consecutive
\* days.
C19_ProjectedDates ==
    (op = "generateNeuralForecast" /\ Len(data) >= 2) =>
        /\ ~raised
        /\ LET n == Len(data)
           IN  /\ \A i \in 1..10 :
                     /\ out[n + i].date.k = "day"
                     /\ out[n].date.k = "day"
                     /\ out[n + i].date.n = out[n].date.n + i
               /\ \A i \in 1..(n + 9) : DayLeq(out[i].date, out[i + 1].date)

(***************************************************************************)
(* Further properties of calculateNTS (SpecNTS).                           *)
(***************************************************************************)
\* Records i and k are in the same (weekday, hour) group
SameGroup(i, k) == dayOf(data[i]) = dayOf(data[k]) /\ data[i].Hour = data[k].Hour

\* The position of the first record of the group of record i
FirstOccurrence(i) ==
    CHOOSE k \in 1..Len(data) : SameGroup(i, k) /\ \A h \in 1..(k - 1) : ~SameGroup(i, h)

\* Records i and k are in different groups whose means are the same number
TiedGroups(i, k) ==
    /\ ~SameGroup(i, k)
    /\ GroupMeanOf(data[i]).k = "number"
    /\ GroupMeanOf(data[i]) = GroupMeanOf(data[k])

\* The group of record i has a mean that is a number and no group has a mean
\* that is a higher number
HasHighestMean(i) ==
    /\ GroupMeanOf(data[i]).k = "number"
    /\ \A h \in 1..Len(data) :
          GroupMeanOf(data[h]).k = "number" => JGeq(GroupMeanOf(data[i]), GroupMeanOf(data[h]))

WindowOf(rec) == dayOf(rec) \o <<" ", "@", " ">> \o hourLabel(TemplateString(rec.Hour))

BestWindow == out.bestDay \o <<" ", "@", " ">> \o out.bestHour

\* C20: when several groups share the highest mean engagement calculateNTS
\* reports as best the one whose first record comes earliest in the input,
\* and groups with equal means are ranked in order of first occurrence: of
\* two such groups the later one is not the best window, and is the secondary
\* window only when the earlier one is the best.
C20_TiesByFirstOccurrence ==
    (op = "calculateNTS" /\ Len(data) > 0) =>
        \A b, c \in 1..Len(data) :
            (TiedGroups(b, c) /\ FirstOccurrence(b) < FirstOccurrence(c)) =>
                /\ BestWindow # WindowOf(data[c])
                /\ out.secondaryWindow = WindowOf(data[c]) => BestWindow = WindowOf(data[b])
                /\ (HasHighestMean(b) /\ \A h \in 1..Len(data) :
                        TiedGroups(b, h) => FirstOccurrence(b) < FirstOccurrence(h))
                      => BestWindow = WindowOf(data[b])

\* C21: calculateNTS reports as secondaryWindow the group ranked second by
\* mean engagement when the input has at least two distinct (weekday, hour)
\* groups (a group other than the best whose mean is >= that of every group
\* but the best, and <= that of the best), and the best window itself when
\* the input has exactly one group.
C21_SecondaryIsSecondRanked ==
    (op = "calculateNTS" /\ Len(data) > 0) =>
        IF \A i, k \in 1..Len(data) : SameGroup(i, k)
        THEN out.secondaryWindow = BestWindow
        ELSE \E b, c \in 1..Len(data) :
                /\ ~SameGroup(b, c)
                /\ BestWindow = WindowOf(data[b])
                /\ out.secondaryWindow = WindowOf(data[c])
                /\ JGeq(GroupMeanOf(data[b]), GroupMeanOf(data[c]))
                /\ \A h \in 1..Len(data) :
                      ~SameGroup(h, b) => JGeq(GroupMeanOf(data[c]), GroupMeanOf(data[h]))

\* C22: when the global mean engagement of a non-empty input is exactly 0
\* calculateNTS returns without raising and its liftPercentage is a
\* non-finite value (NaN or an infinity): not 0 and not an error.
C22_ZeroBaselineNonFinite ==
    (op = "calculateNTS" /\ Len(data) > 0 /\ GlobalMean = Num(0)) =>
        /\ ~raised
        /\ out.liftPercentage.k \in {"NaN", "Infinity"}

\* calculateNTS has run on records of engagements -100, 50 and 50, whose
\* global mean is 0 and whose best window has mean 50.
C22_Witness ==
    /\ op = "calculateNTS"
    /\ Len(data) = 3
    /\ GlobalMean = Num(0)
    /\ out.engagementScore = Num(50)
    /\ out.liftPercentage = Infinity(1)

DigitChars == {"0", "1", "2", "3", "4", "5", "6", "7", "8", "9"}

\* label is two decimal digits followed by ':00'
IsHourLabel(label) ==
    /\ Len(label) = 5
    /\ label[1] \in DigitChars /\ label[2] \in DigitChars
    /\ SubSeq(label, 3, 5) = <<":", "0", "0">>

\* C23: for non-empty input whose records have Hour in 0..23, bestHour is
\* exactly two decimal digits followed by ':00' (hours below 10 zero-padded),
\* and the hour part of secondaryWindow has the same form.
C23_HourLabelForm ==
    (op = "calculateNTS" /\ Len(data) > 0
        /\ \A i \in 1..Len(data) : IsHourOfDay(data[i].Hour)) =>
        /\ IsHourLabel(out.bestHour)
        /\ Len(out.secondaryWindow) >= 5
        /\ IsHourLabel(SubSeq(out.secondaryWindow, Len(out.secondaryWindow) - 4,
                              Len(out.secondaryWindow)))

\* calculateNTS has run on records of hour 9 and hour 23, reporting 09:00.
C23_Witness ==
    /\ op = "calculateNTS"
    /\ \E i, k \in 1..Len(data) : data[i].Hour = Num(9) /\ data[k].Hour = Num(23)
    /\ out.bestHour = <<"0", "9", ":", "0", "0">>

\* C25: for non-empty input of records with non-negative engagement and
\* global mean engagement > 0 the liftPercentage of calculateNTS is >= 0.
C25_LiftNonNegative ==
    (op = "calculateNTS" /\ Len(data) > 0
        /\ (\A i \in 1..Len(data) : IsNonNegativeNumber(data[i].Engagement))
        /\ JLess(Num(0), GlobalMean)) =>
        JGeq(out.liftPercentage, Num(0))

\* calculateNTS has run on records of several groups with non-negative
\* engagements, reporting a lift above 0.
C25_Witness ==
    /\ op = "calculateNTS"
    /\ \A i \in 1..Len(data) : IsNonNegativeNumber(data[i].Engagement)
    /\ \E i, k \in 1..Len(data) : ~SameGroup(i, k)
    /\ JLess(Num(0), out.liftPercentage)

(***************************************************************************)
(* Further properties of generateRichSummary (SpecSummary).                *)
(***************************************************************************)
\* The summed engagement of the records whose field holds value
TotalOf(field, value) ==
    LET Holds(rec) == rec[field] = value
        members == SelectSeq(data, Holds)
    IN  Sum([i \in 1..Len(members) |-> members[i].Engagement])

\* The position of the first record whose field holds value
FirstWith(field, value) ==
    CHOOSE k \in 1..Len(data) :
        data[k][field] = value /\ \A h \in 1..(k - 1) : data[h][field] # value

\* top is a value of field with summed engagement >= that of every other
\* value, and the first to appear of those tied with it
IsTopOf(field, top) ==
    /\ \E i \in 1..Len(data) : data[i][field] = top
    /\ \A i \in 1..Len(data) :
          /\ JGeq(TotalOf(field, top), TotalOf(field, data[i][field]))
          /\ TotalOf(field, data[i][field]) = TotalOf(field, top)
                => FirstWith(field, top) <= i

\* C24: for non-empty input the top platform, and likewise the top sector,
\* named by generateRichSummary has summed engagement >= that of every other
\* platform (sector), and among those tied for the maximum it is the one that
\* first appears in the input.
C24_TopPlatformAndSector ==
    (op = "generateRichSummary" /\ Len(data) > 0) =>
        /\ IsTopOf("Platform", out.topPlatform)
        /\ IsTopOf("Sector", out.topSector)

(***************************************************************************)
(* The report export of the App (finalizeReport).                          *)
(***************************************************************************)
\* The script tags of the page may or may not have loaded the two libraries
ExportLibraries == [html2canvas : BOOLEAN, jspdf : BOOLEAN]

\* What a run of html2canvas and jsPDF inside the try block comes to
ExportOutcomes(libraries) ==
    IF libraries.html2canvas THEN {"saved", "captureFailed"} ELSE {"captureFailed"}

\* finalizeReport up to its first await: setIsReporting(true), then the two
\* reads of window before the try block.  Destructuring window.jspdf throws
\* when the library is missing, and no catch or finally block is active there.
FinalizeReport ==
    /\ showBriefingRoom
    /\ ~isReporting
    /\ isReporting' = TRUE
    /\ exporting' = exportLibraries.jspdf
    /\ UNCHANGED <<reportRawText, reportPending, showBriefingRoom, briefingData,
                   exportLibraries, engineVars, liveVars>>

\* finalizeReport from its try block to the end of its finally block
ExportEnds ==
    /\ exporting
    /\ \E outcome \in ExportOutcomes(exportLibraries) :
          showBriefingRoom' = IF outcome = "saved" THEN FALSE ELSE showBriefingRoom
    /\ isReporting' = FALSE
    /\ exporting' = FALSE
    /\ UNCHANGED <<reportRawText, reportPending, briefingData,
                   exportLibraries, engineVars, liveVars>>

\* The replies the report request of the export specification resolves to
ReportReplies ==
    {Concat(segs) : segs \in BoundedSeq(Segments, 2) \ {<<>>}}
        \cup {ExampleReply, <<"Report generation failed.">>}

InitReport ==
    /\ rawData = <<>>
    /\ data = <<>>
    /\ op = "snapshot"
    /\ raised = FALSE
    /\ out = <<>>
    /\ nts = ntsUnavailable
    /\ callsLeft = 0
    /\ reportRawText \in ReportReplies
    /\ reportPending = FALSE
    /\ isReporting = FALSE
    /\ showBriefingRoom = FALSE
    /\ briefingData = <<>>
    /\ exportLibraries \in ExportLibraries
    /\ exporting = FALSE
    /\ InitLiveFeed
    /\ pulsesLeft = 0

NextReport ==
    \/ StartBriefing
    \/ ReportReturns
    \/ CloseBriefingRoom
    \/ FinalizeReport
    \/ ExportEnds

SpecReport == InitReport /\ [][NextReport]_vars

\* C28: whenever no run of startBriefing or finalizeReport is in progress,
\* isReporting is false, whichever step of the run failed.
C28_ReportingFlagReleased ==
    (~reportPending /\ ~exporting) => ~isReporting

(***************************************************************************)
(* The live feed of the App: initiateNeuralPulse, the effect that runs it  *)
(* while isLive, the Pulse button and the CSV upload.                      *)
(*                                                                         *)
(* A render commits the state values into the closures of the callbacks    *)
(* and into the buttons.  State set inside a click or change handler is    *)
(* rendered before the handler's event ends; state set from a timer        *)
(* callback, from an effect or after an await is rendered in a later task, *)
(* and until then renderPending holds.                                     *)
(***************************************************************************)
\* Math.floor(a)
MathFloor(a) == IF a.k = "number" THEN Num(a.n \div a.d) ELSE a

\* Math.random(): one draw stands for the draws of one generateMockPoint call
MockRandom == {Num(0), Rat(1, 2)}

Sectors == <<Str("Tech"), Str("Gaming"), Str("Finance"), Str("Lifestyle")>>

Platforms == <<Str("X"), Str("Instagram"), Str("LinkedIn"), Str("Facebook")>>

\* generateMockPoint(date, baseEng, multiplier), date given by its time value:
\* toISOString throws a RangeError on an Invalid Date
generateMockPoint(time, baseEng, multiplier, random) ==
    LET base == JAdd(MathFloor(JMul(random, baseEng)), Num(100))
        engagement == MathFloor(JMul(base, multiplier))
        pick == MathFloor(JMul(random, Num(4))).n + 1
    IN  IF ~IsFinite(time)
        THEN [raised |-> TRUE, value |-> Undefined]
        ELSE [raised |-> FALSE,
              value |-> [Date |-> IsoStr(time.n),
                         Engagement |-> engagement,
                         Impressions |->
                             MathFloor(JMul(engagement, JAdd(Num(8), JMul(random, Num(4))))),
                         Shares |-> MathFloor(JMul(engagement, Rat(1, 20))),
                         Likes |-> MathFloor(JMul(engagement, Rat(2, 5))),
                         Comments |-> MathFloor(JMul(engagement, Rat(1, 10))),
                         Sector |-> Sectors[pick],
                         Platform |-> Platforms[pick],
                         Hour |-> Num(time.n % 24)]]

\* INITIAL_MOCK_DATA: one point a day up to the day before now
INITIAL_MOCK_DATA(now) ==
    [i \in 1..MockLength |->
        generateMockPoint(JSub(GetTime(now), Num((MockLength - i) * 24 + 24)),
                          Num(100), Num(1), Num(0)).value]

\* The fallback text of fetchLiveContext
FallbackContext == <<"0", ", ", "1.0", ", ", "0">>

\* What the request of fetchLiveContext comes to: it fails, or it answers a
\* text (empty for a response without text)
LiveResponses ==
    {[failed |-> TRUE, text |-> <<>>],
     [failed |-> FALSE, text |-> <<>>],
     [failed |-> FALSE, text |-> <<"450", ", ", "1.2", ", ", "15">>],
     [failed |-> FALSE, text |-> <<"Score ", "450", " only.">>]}

\* fetchLiveContext(topic): the text it resolves to; it never rejects
fetchLiveContext(response) ==
    IF response.failed \/ response.text = <<>> THEN FallbackContext ELSE response.text

\* parseFloat of the texts the pattern /[-+]?[0-9]*\.?[0-9]+/ matches
parseFloat ==
    [t \in {"0", "1.0", "450", "1.2", "15"} |->
        CASE t = "0"   -> Num(0)
          [] t = "1.0" -> Num(1)
          [] t = "450" -> Num(450)
          [] t = "1.2" -> Rat(6, 5)
          [] t = "15"  -> Num(15)]

\* context.match(/[-+]?[0-9]*\.?[0-9]+/g)
numbersOf(text) == SelectSeq(text, LAMBDA t : t \in DOMAIN parseFloat)

\* The metrics a pulse works with: the first three numbers, else the defaults
metricsOf(text) ==
    LET numbers == numbersOf(text)
    IN  IF Len(numbers) >= 3
        THEN [score |-> parseFloat[numbers[1]], multiplier |-> parseFloat[numbers[2]],
              volatility |-> parseFloat[numbers[3]]]
        ELSE [score |-> Num(250), multiplier |-> Num(1), volatility |-> Num(10)]

Min(a, b) == IF a < b THEN a ELSE b

Max(a, b) == IF a > b THEN a ELSE b

\* The two setLinkIntegrity calls of the try block
linkIntegrityAfter(text, prev) ==
    IF Len(numbersOf(text)) >= 3 THEN Min(100, prev + 5) ELSE Max(0, prev - 15)

\* The updater handed to setData by a pulse
nextData(prevData, metrics, random) ==
    LET lastDate == GetTime(prevData[Len(prevData)].Date)
        nextDate == JAdd(lastDate, Num(1))
        newPoint == generateMockPoint(nextDate, metrics.score, metrics.multiplier, random)
    IN  IF newPoint.raised
        THEN [raised |-> TRUE, value |-> prevData]
        ELSE [raised |-> FALSE, value |-> Tail(prevData) \o <<newPoint.value>>]

\* The dependencies of the effect: isLive and initiateNeuralPulse, whose
\* identity follows isPulsing and liveTopic
effectRuns(before, after) == before # after

\* Which dependency made the effect run again
causeOf(before, after) ==
    IF before.isLive # after.isLive THEN "switchedOn"
    ELSE IF before.isPulsing # after.isPulsing THEN "pulseCompleted"
    ELSE "topicEdited"

\* A render commits the values given and runs the effect when its
\* dependencies changed: while isLive the effect calls
\* initiateNeuralPulse(true), whose guard reads the isPulsing just committed.
Commits(pulsing, live, topic, flight, left) ==
    LET after == [isPulsing |-> pulsing, isLive |-> live, liveTopic |-> topic]
        starts == live /\ effectRuns(committed, after) /\ ~pulsing
    IN  /\ starts => left > 0
        /\ committed' = after
        /\ isLive' = live
        /\ liveTopic' = topic
        /\ isPulsing' = (pulsing \/ starts)
        /\ renderPending' = starts
        /\ inFlight' = IF starts THEN Append(flight, [isSilent |-> TRUE]) ELSE flight
        /\ started' = IF starts THEN causeOf(committed, after) ELSE started
        /\ pulsesLeft' = IF starts THEN left - 1 ELSE left

Topics == {"Global AI Trends", "Crypto"}

\* The Pulse button: disabled by the isPulsing of the committed render, and
\* its initiateNeuralPulse(false) reads the same value in its guard
PulseClick ==
    /\ ~raised
    /\ ~committed.isPulsing
    /\ pulsesLeft > 0
    /\ Commits(TRUE, isLive, liveTopic, Append(inFlight, [isSilent |-> FALSE]),
               pulsesLeft - 1)
    /\ UNCHANGED <<liveMetrics, linkIntegrity, context, engineVars, briefingVars, exportVars>>

\* The interval of the effect fires: initiateNeuralPulse(true) of the
\* committed render, which returns at once when that render's isPulsing is
\* true.  A render takes far less than the 15000 ms between two ticks.
IntervalTick ==
    /\ ~raised
    /\ committed.isLive
    /\ ~renderPending
    /\ IF committed.isPulsing
       THEN UNCHANGED <<isPulsing, renderPending, inFlight, started, pulsesLeft>>
       ELSE /\ pulsesLeft > 0
            /\ isPulsing' = TRUE
            /\ renderPending' = TRUE
            /\ inFlight' = Append(inFlight, [isSilent |-> TRUE])
            /\ started' = "interval"
            /\ pulsesLeft' = pulsesLeft - 1
    /\ UNCHANGED <<isLive, liveTopic, committed, liveMetrics, linkIntegrity, context,
                   engineVars, briefingVars, exportVars>>

\* The render of state set outside an event handler
Render ==
    /\ ~raised
    /\ renderPending
    /\ Commits(isPulsing, isLive, liveTopic, inFlight, pulsesLeft)
    /\ UNCHANGED <<liveMetrics, linkIntegrity, context, engineVars, briefingVars, exportVars>>

\* The live toggle: setIsLive(!isLive)
ToggleLive ==
    /\ ~raised
    /\ Commits(isPulsing, ~isLive, liveTopic, inFlight, pulsesLeft)
    /\ UNCHANGED <<liveMetrics, linkIntegrity, context, engineVars, briefingVars, exportVars>>

\* The topic input: setLiveTopic
EditTopic ==
    /\ ~raised
    /\ \E topic \in Topics \ {liveTopic} :
          Commits(isPulsing, isLive, topic, inFlight, pulsesLeft)
    /\ UNCHANGED <<liveMetrics, linkIntegrity, context, engineVars, briefingVars, exportVars>>

\* A run of initiateNeuralPulse from the reply of fetchLiveContext to the end
\* of its finally block.  The updater of setData runs in the render; when it
\* throws, the render fails and nothing of the run is committed.  The
\* request answers after the render of the run's start.
PulseCompletes ==
    /\ ~raised
    /\ ~renderPending
    /\ \E i \in 1..Len(inFlight), response \in LiveResponses, random \in MockRandom :
          LET text == fetchLiveContext(response)
              next == nextData(data, metricsOf(text), random)
          IN  /\ inFlight' = [j \in 1..(Len(inFlight) - 1) |->
                                 IF j < i THEN inFlight[j] ELSE inFlight[j + 1]]
              /\ context' = [failed |-> response.failed, text |-> text]
              /\ raised' = next.raised
              /\ data' = next.value
              /\ IF next.raised
                 THEN UNCHANGED <<liveMetrics, linkIntegrity, isPulsing, renderPending>>
                 ELSE /\ liveMetrics' =
                            IF Len(numbersOf(text)) >= 3 THEN metricsOf(text) ELSE liveMetrics
                      /\ linkIntegrity' = linkIntegrityAfter(text, linkIntegrity)
                      /\ isPulsing' = FALSE
                      /\ renderPending' = TRUE
    /\ op' = "initiateNeuralPulse"
    /\ UNCHANGED <<rawData, out, nts, callsLeft, isLive, liveTopic, committed, started,
                   pulsesLeft, briefingVars, exportVars>>

\* The rows Papa.parse hands to the upload
UploadRows ==
    {[Date |-> Mon9, Engagement |-> NumStr(100)],
     [Date |-> Str("n/a"), Engagement |-> NumStr(50)]}

\* handleFileUpload: the complete callback of Papa.parse
HandleFileUpload ==
    /\ ~raised
    /\ \E rows \in BoundedSeq(UploadRows, MaxUpload), now \in NowValues :
          LET processed == processCSVData(rows, now)
          IN  /\ rawData' = rows
              /\ out' = processed
              /\ data' = IF Len(processed) > 0 THEN processed ELSE data
    /\ op' = "handleFileUpload"
    /\ UNCHANGED <<raised, nts, callsLeft, liveVars, briefingVars, exportVars>>

InitLive ==
    /\ rawData = <<>>
    /\ \E now \in NowValues : data = INITIAL_MOCK_DATA(now)
    /\ op = "init"
    /\ raised = FALSE
    /\ out = <<>>
    /\ nts = ntsUnavailable
    /\ callsLeft = 0
    /\ reportRawText = <<>>
    /\ reportPending = FALSE
    /\ isReporting = FALSE
    /\ showBriefingRoom = FALSE
    /\ briefingData = <<>>
    /\ exportLibraries = [html2canvas |-> TRUE, jspdf |-> TRUE]
    /\ exporting = FALSE
    /\ InitLiveFeed
    /\ pulsesLeft = MaxPulses

NextLive ==
    \/ PulseClick
    \/ IntervalTick
    \/ Render
    \/ ToggleLive
    \/ EditTopic
    \/ PulseCompletes
    \/ HandleFileUpload

SpecLive == InitLive /\ [][NextLive]_vars

\* C26: at most one initiateNeuralPulse run is in flight at any time.
C26_OnePulseInFlight == Len(inFlight) <= 1

\* C27: a silent pulse is started only by switching the feed on or by the
\* interval timer; the completion of a pulse starts none.
C27_SilentPulseStarts == started \in {"none", "switchedOn", "interval"}

\* A step in which a run of initiateNeuralPulse ends
PulseEnds == Len(inFlight') < Len(inFlight)

\* The record a pulse appends: one hour after the last record of the dataset
IsNextPoint(record, prevData) ==
    /\ IsFinite(GetTime(prevData[Len(prevData)].Date))
    /\ GetTime(record.Date) = JAdd(GetTime(prevData[Len(prevData)].Date), Num(1))

\* C29: the dataset is never empty: an upload of zero records leaves it
\* unchanged, and each pulse drops the oldest record and appends a new one,
\* which leaves its length unchanged.
C29_DatasetKept ==
    [][/\ Len(data') > 0
       /\ (op' = "handleFileUpload" /\ Len(out') = 0) => data' = data
       /\ PulseEnds =>
             /\ Len(data') = Len(data)
             /\ \A i \in 1..(Len(data) - 1) : data'[i] = data[i + 1]
             /\ IsNextPoint(data'[Len(data')], data)]_vars

\* C30: a pulse whose request failed neither raises link integrity nor
\* changes the live metrics, and link integrity rises only with a pulse whose
\* request returned three numbers.
C30_FailedRequestKeepsLink ==
    [][/\ (PulseEnds /\ context'.failed) =>
             /\ linkIntegrity' <= linkIntegrity
             /\ liveMetrics' = liveMetrics
       /\ linkIntegrity' > linkIntegrity =>
             /\ PulseEnds
             /\ ~context'.failed
             /\ Len(numbersOf(context'.text)) >= 3]_vars

=============================================================================
